---- MODULE Spec2Model ----
(***************************************************************************)
(* Embedded validation procedures of the RGB core virtual machine          *)
(* (src/src/vm/embedded.rs).  Every procedure is a pure function of a      *)
(* node's metadata and of its previous / current owned rights; a call is   *)
(* one step of the state machine: it reads the inputs chosen by Init and   *)
(* stores the value the procedure returns.  The dispatch layer             *)
(* (EmbeddedVm::validate_node, src/src/vm/mod.rs) keeps the record of the  *)
(* calls made on a VM.                                                     *)
(*                                                                         *)
(* Scaling.  u64 is modelled with BITS bits (U64_MAX = 2^BITS - 1); the    *)
(* scalar group of the blinding factors has BlindOrder elements.  The      *)
(* value component of a commitment lives in a group whose order (~2^256)   *)
(* is far above any sum of u64 values, so it is an unbounded integer.      *)
(***************************************************************************)
EXTENDS Integers, Sequences, FiniteSets, TLC

VARIABLES
    meta,                    \* current_meta: field type -> sequence of values
    previous_owned_rights,   \* sequence of [type, vec], strictly ascending type
    current_owned_rights,
    proc,                    \* the procedure that has been called, or "none"
    result,                  \* what it returned, or "none"
    entry_point,             \* the 32-bit identifier handed to a decoder
    vm,                      \* the embedded VM of a schema: its handler slots
    history                  \* the validate calls made on the VM, with results

vars == <<meta, previous_owned_rights, current_owned_rights, proc, result,
          entry_point, vm, history>>

---------------------------------------------------------------------------
(* Bounds of the model *)

BITS == 11                   \* width of the scaled u64
BlindOrder == 3              \* order of the scaled blinding-factor group
MaxIssued == 2               \* ISSUED_SUPPLY values per node
MaxPrevInflation == 2        \* previous inflation-right assignments
MaxCurrInflation == 1        \* current inflation-right assignments
MaxOwnership == 1            \* ownership-right assignments per side (issue)
MaxAssignments == 2          \* assignments per side seen by an assignment validator
MaxItems == 2                \* state-carrying assignments per right type (transfer)
MaxDeclarative == 3          \* declarative assignments per right type (transfer)
MaxCount == 2                \* assignments per right type (count comparison)
MaxNftPrevInflation == 5     \* previous inflation-right assignments (NFT issue)
MaxNftCurrInflation == 3     \* current inflation-right assignments (NFT issue)
MaxNftOwnership == 2         \* current ownership-right assignments (NFT issue)
MaxNftPrevOwnership == 1     \* previous ownership-right assignments (NFT issue)
EntryPointBits == 9          \* width of the scaled EntryPoint (u32)
MaxCalls == 3                \* validate calls made on one validation script

U64_MODULUS == 2 ^ BITS
U64_MAX == U64_MODULUS - 1
U64_HALF == 2 ^ (BITS - 1)

---------------------------------------------------------------------------
(* Program constants *)

FIELD_TYPE_ISSUED_SUPPLY == 160
FIELD_TYPE_LOCK_DESCRIPTOR == 192
STATE_TYPE_INFLATION_RIGHT == 160
STATE_TYPE_OWNERSHIP_RIGHT == 161
STATE_TYPE_ISSUE_EPOCH_RIGHT == 170
ONE_KEY == 1

---------------------------------------------------------------------------
(* Value arithmetic: Pedersen commitments as (value, blinding) pairs *)

Commitment(v, b) == [v |-> v, b |-> b % BlindOrder]

\* value::Revealed::commit_conceal
commit(value, blinding) == Commitment(value, blinding)

CommitmentIdentity == Commitment(0, 0)

CommitmentAdd(x, y) == Commitment(x.v + y.v, x.b + y.b)

RECURSIVE CommitmentSum(_)
CommitmentSum(s) ==
    IF s = <<>> THEN CommitmentIdentity
    ELSE CommitmentAdd(Head(s), CommitmentSum(Tail(s)))

\* value::Confidential::verify_commit_sum(positive, negative)
verify_commit_sum(positive, negative) ==
    CommitmentSum(positive) = CommitmentSum(negative)

---------------------------------------------------------------------------
(* Assignments.  Only the state of an assignment is modelled (its seal is  *)
(* read by no procedure).                                                  *)

RevealedState(value, blinding) ==
    [revealed |-> TRUE, value |-> value, blinding |-> blinding]

ConfidentialState(c) == [revealed |-> FALSE, commitment |-> c]

DeclarativeVec(items) == [state_type |-> "Declarative", items |-> items]
DiscreteFiniteFieldVec(items) == [state_type |-> "DiscreteFiniteField", items |-> items]
CustomDataVec(items) == [state_type |-> "CustomData", items |-> items]

\* Assignment::as_revealed_state is Some
IsRevealed(a) == a.revealed

\* Assignment::to_confidential_state of a value assignment
to_confidential_state(a) ==
    IF a.revealed THEN [commitment |-> commit(a.value, a.blinding)]
    ELSE [commitment |-> a.commitment]

\* data::Revealed::commit_conceal: the digest of attached data
data_conceal(data) == <<"digest", data>>

RevealedData(data) == [revealed |-> TRUE, data |-> data]

ConfidentialData(digest) == [revealed |-> FALSE, digest |-> digest]

\* Assignment::to_confidential_state of a data assignment
data_to_confidential_state(a) ==
    IF a.revealed THEN data_conceal(a.data) ELSE a.digest

\* the void state of a declarative assignment
VoidState == [revealed |-> TRUE]

\* AssignmentVec::state_type
state_type(vec) == vec.state_type

\* OwnedRights::assignments_by_type
assignments_by_type(rights, t) ==
    IF \E i \in 1..Len(rights) : rights[i].type = t
    THEN rights[CHOOSE i \in 1..Len(rights) : rights[i].type = t].vec
    ELSE DeclarativeVec(<<>>)

\* AssignmentVec::as_revealed_state_values
as_revealed_state_values(vec) ==
    IF \E i \in 1..Len(vec.items) : ~IsRevealed(vec.items[i])
    THEN [ok |-> FALSE, values |-> <<>>]
    ELSE [ok |-> TRUE, values |-> vec.items]

\* AssignmentVec::to_confidential_state_pedersen, then .map(|v| v.commitment)
to_confidential_state_pedersen(vec) ==
    [i \in 1..Len(vec.items) |-> to_confidential_state(vec.items[i]).commitment]

\* .map(|revealed| revealed.value)
RevealedValues(s) == [i \in 1..Len(s) |-> s[i].value]

\* Metadata::u64
meta_u64(m, t) == IF t \in DOMAIN m THEN m[t] ELSE <<>>

\* Metadata::bytes
meta_bytes(m, t) == IF t \in DOMAIN m THEN m[t] ELSE <<>>

\* AssignmentVec::len
vec_len(vec) == Len(vec.items)

---------------------------------------------------------------------------
(* u64 arithmetic.  `+` and Iterator::sum are unchecked: with overflow     *)
(* checks compiled in they abort, without them they wrap.                  *)

u64_add(a, b) == [overflow |-> a + b > U64_MAX, value |-> (a + b) % U64_MODULUS]

RECURSIVE u64_sum_from(_, _)
u64_sum_from(acc, s) ==
    IF s = <<>> THEN acc
    ELSE LET r == u64_add(acc.value, Head(s))
         IN  u64_sum_from([overflow |-> acc.overflow \/ r.overflow,
                           value |-> r.value], Tail(s))

\* Iterator::sum::<u64>
u64_sum(s) == u64_sum_from([overflow |-> FALSE, value |-> 0], s)

\* u64::checked_add
checked_add(a, b) ==
    IF a + b > U64_MAX THEN [some |-> FALSE, value |-> 0]
    ELSE [some |-> TRUE, value |-> a + b]

---------------------------------------------------------------------------
(* NodeValidator::fungible_issue *)

\* fungible_issue without its second check (the commitment sum)
fungible_issue_no_commit_sum(m, prev, curr, overflow_checks) ==
    LET issued == u64_sum(meta_u64(m, FIELD_TYPE_ISSUED_SUPPLY))
        prev_inflation ==
            as_revealed_state_values(assignments_by_type(prev, STATE_TYPE_INFLATION_RIGHT))
        allowed_inflation == u64_sum(RevealedValues(prev_inflation.values))
        curr_inflation ==
            as_revealed_state_values(assignments_by_type(curr, STATE_TYPE_INFLATION_RIGHT))
        future_inflation == u64_sum(RevealedValues(curr_inflation.values))
        total == u64_add(issued.value, future_inflation.value)
    IN  IF overflow_checks /\ issued.overflow THEN "Panic"
        ELSE IF ~prev_inflation.ok THEN "ConfidentialState"
        ELSE IF overflow_checks /\ allowed_inflation.overflow THEN "Panic"
        ELSE IF ~curr_inflation.ok THEN "ConfidentialState"
        ELSE IF overflow_checks /\ future_inflation.overflow THEN "Panic"
        ELSE IF overflow_checks /\ total.overflow THEN "Panic"
        ELSE IF total.value # allowed_inflation.value THEN "Inflation"
        ELSE "Ok"

fungible_issue(m, prev, curr, overflow_checks) ==
    LET issued == u64_sum(meta_u64(m, FIELD_TYPE_ISSUED_SUPPLY))
        prev_inflation ==
            as_revealed_state_values(assignments_by_type(prev, STATE_TYPE_INFLATION_RIGHT))
        allowed_inflation == u64_sum(RevealedValues(prev_inflation.values))
        curr_inflation ==
            as_revealed_state_values(assignments_by_type(curr, STATE_TYPE_INFLATION_RIGHT))
        future_inflation == u64_sum(RevealedValues(curr_inflation.values))
        total == u64_add(issued.value, future_inflation.value)
        inputs ==
            Append(to_confidential_state_pedersen(
                       assignments_by_type(prev, STATE_TYPE_OWNERSHIP_RIGHT)),
                   commit(issued.value, ONE_KEY))
        outputs ==
            to_confidential_state_pedersen(
                assignments_by_type(curr, STATE_TYPE_OWNERSHIP_RIGHT))
    IN  IF overflow_checks /\ issued.overflow THEN "Panic"
        ELSE IF ~prev_inflation.ok THEN "ConfidentialState"
        ELSE IF overflow_checks /\ allowed_inflation.overflow THEN "Panic"
        ELSE IF ~curr_inflation.ok THEN "ConfidentialState"
        ELSE IF overflow_checks /\ future_inflation.overflow THEN "Panic"
        ELSE IF overflow_checks /\ total.overflow THEN "Panic"
        ELSE IF total.value # allowed_inflation.value THEN "Inflation"
        ELSE IF ~verify_commit_sum(outputs, inputs) THEN "Inflation"
        ELSE "Ok"

---------------------------------------------------------------------------
(* NodeValidator::nft_issue.  The three counts are lengths of vectors held *)
(* in memory, so their usize sum cannot overflow.                          *)

\* nft_issue without the new inflation rights in the balance
nft_issue_no_future(m, prev, curr) ==
    LET issued == vec_len(assignments_by_type(curr, STATE_TYPE_OWNERSHIP_RIGHT))
        prev_inflation ==
            as_revealed_state_values(assignments_by_type(prev, STATE_TYPE_INFLATION_RIGHT))
        allowed_inflation == Len(prev_inflation.values)
        curr_inflation ==
            as_revealed_state_values(assignments_by_type(curr, STATE_TYPE_INFLATION_RIGHT))
    IN  IF ~prev_inflation.ok THEN "ConfidentialState"
        ELSE IF ~curr_inflation.ok THEN "ConfidentialState"
        ELSE IF issued # allowed_inflation THEN "Inflation"
        ELSE "Ok"

nft_issue(m, prev, curr) ==
    LET issued == vec_len(assignments_by_type(curr, STATE_TYPE_OWNERSHIP_RIGHT))
        prev_inflation ==
            as_revealed_state_values(assignments_by_type(prev, STATE_TYPE_INFLATION_RIGHT))
        allowed_inflation == Len(prev_inflation.values)
        curr_inflation ==
            as_revealed_state_values(assignments_by_type(curr, STATE_TYPE_INFLATION_RIGHT))
        future_inflation == Len(curr_inflation.values)
    IN  IF ~prev_inflation.ok THEN "ConfidentialState"
        ELSE IF ~curr_inflation.ok THEN "ConfidentialState"
        ELSE IF issued + future_inflation # allowed_inflation THEN "Inflation"
        ELSE "Ok"

---------------------------------------------------------------------------
(* NodeValidator::proof_of_burn, NodeValidator::proof_of_reserve *)

\* proof_of_burn accepting every node
proof_of_burn_accepting(m) == "Ok"

proof_of_burn(m) == "NotImplemented"

\* proof_of_reserve without the look-up of the lock descriptor
proof_of_reserve_no_descriptor(m) == "NotImplemented"

proof_of_reserve(m) ==
    LET _descriptor_data == meta_bytes(m, FIELD_TYPE_LOCK_DESCRIPTOR)
    IN  IF _descriptor_data = <<>> THEN "BrokenSchema"
        ELSE "NotImplemented"

---------------------------------------------------------------------------
(* NodeValidator::input_output_count_eq *)

\* the comparison of the right types alone
RECURSIVE types_eq_loop(_, _, _)
types_eq_loop(prev, curr, i) ==
    IF i > Len(prev) \/ i > Len(curr) THEN "Ok"
    ELSE IF prev[i].type # curr[i].type THEN "NonEqualTypes"
    ELSE types_eq_loop(prev, curr, i + 1)

\* the comparison of the assignment counts alone
RECURSIVE counts_eq_loop(_, _, _)
counts_eq_loop(prev, curr, i) ==
    IF i > Len(prev) \/ i > Len(curr) THEN "Ok"
    ELSE IF Len(prev[i].vec.items) # Len(curr[i].vec.items)
         THEN "NonEqualAssignmentCount"
    ELSE counts_eq_loop(prev, curr, i + 1)

\* count_eq_loop comparing every right type before any assignment count
count_eq_loop_types_first(prev, curr, i) ==
    IF types_eq_loop(prev, curr, i) # "Ok" THEN "NonEqualTypes"
    ELSE counts_eq_loop(prev, curr, i)

RECURSIVE count_eq_loop(_, _, _)
count_eq_loop(prev, curr, i) ==
    IF i > Len(prev) \/ i > Len(curr) THEN "Ok"
    ELSE IF prev[i].type # curr[i].type THEN "NonEqualTypes"
    ELSE IF Len(prev[i].vec.items) # Len(curr[i].vec.items)
         THEN "NonEqualAssignmentCount"
    ELSE count_eq_loop(prev, curr, i + 1)

\* input_output_count_eq without the comparison of the assignment counts
input_output_count_eq_types_only(prev, curr) ==
    IF Len(prev) # Len(curr) THEN "NonEqualTypes"
    ELSE types_eq_loop(prev, curr, 1)

input_output_count_eq(prev, curr) ==
    IF Len(prev) # Len(curr) THEN "NonEqualTypes"
    ELSE count_eq_loop(prev, curr, 1)

---------------------------------------------------------------------------
(* NodeValidator::input_output_value_eq *)

\* value_items_loop with the two errors exchanged
RECURSIVE value_items_loop_swapped(_, _, _)
value_items_loop_swapped(p, c, j) ==
    IF j > Len(p) \/ j > Len(c) THEN "Ok"
    ELSE IF IsRevealed(p[j]) /\ IsRevealed(c[j])
         THEN IF p[j].value # c[j].value THEN "ConfidentialState"
              ELSE value_items_loop_swapped(p, c, j + 1)
    ELSE IF to_confidential_state(p[j]).commitment
                # to_confidential_state(c[j]).commitment
         THEN "NonEqualState"
    ELSE value_items_loop_swapped(p, c, j + 1)

\* the zip over two DiscreteFiniteField vectors
RECURSIVE value_items_loop(_, _, _)
value_items_loop(p, c, j) ==
    IF j > Len(p) \/ j > Len(c) THEN "Ok"
    ELSE IF IsRevealed(p[j]) /\ IsRevealed(c[j])
         THEN IF p[j].value # c[j].value THEN "NonEqualState"
              ELSE value_items_loop(p, c, j + 1)
    ELSE IF to_confidential_state(p[j]).commitment
                # to_confidential_state(c[j]).commitment
         THEN "ConfidentialState"
    ELSE value_items_loop(p, c, j + 1)

\* the zip over two CustomData vectors
RECURSIVE data_items_loop(_, _, _)
data_items_loop(p, c, j) ==
    IF j > Len(p) \/ j > Len(c) THEN "Ok"
    ELSE IF data_to_confidential_state(p[j]) # data_to_confidential_state(c[j])
         THEN "NonEqualState"
    ELSE data_items_loop(p, c, j + 1)

\* match (prev_assignments, curr_assignments)
match_assignments(p, c) ==
    IF p.state_type = "Declarative" /\ c.state_type = "Declarative" THEN "Ok"
    ELSE IF p.state_type = "DiscreteFiniteField" /\ c.state_type = "DiscreteFiniteField"
         THEN value_items_loop(p.items, c.items, 1)
    ELSE IF p.state_type = "CustomData" /\ c.state_type = "CustomData"
         THEN data_items_loop(p.items, c.items, 1)
    ELSE "Panic"

\* value_eq_loop without the comparison of the two state types
RECURSIVE value_eq_loop_no_state_type(_, _, _)
value_eq_loop_no_state_type(prev, curr, i) ==
    IF i > Len(prev) \/ i > Len(curr) THEN "Ok"
    ELSE IF prev[i].type # curr[i].type THEN "NonEqualTypes"
    ELSE IF Len(prev[i].vec.items) # Len(curr[i].vec.items)
         THEN "NonEqualAssignmentCount"
    ELSE LET r == match_assignments(prev[i].vec, curr[i].vec)
         IN  IF r # "Ok" THEN r
             ELSE value_eq_loop_no_state_type(prev, curr, i + 1)

RECURSIVE value_eq_loop(_, _, _)
value_eq_loop(prev, curr, i) ==
    IF i > Len(prev) \/ i > Len(curr) THEN "Ok"
    ELSE IF prev[i].type # curr[i].type THEN "NonEqualTypes"
    ELSE IF state_type(prev[i].vec) # state_type(curr[i].vec) THEN "BrokenSchema"
    ELSE IF Len(prev[i].vec.items) # Len(curr[i].vec.items)
         THEN "NonEqualAssignmentCount"
    ELSE LET r == match_assignments(prev[i].vec, curr[i].vec)
         IN  IF r # "Ok" THEN r ELSE value_eq_loop(prev, curr, i + 1)

\* input_output_value_eq without the comparison of the map lengths
input_output_value_eq_no_len(prev, curr) == value_eq_loop(prev, curr, 1)

input_output_value_eq(prev, curr) ==
    IF Len(prev) # Len(curr) THEN "NonEqualTypes"
    ELSE value_eq_loop(prev, curr, 1)

---------------------------------------------------------------------------
(* NodeValidator::validate *)

NodeValidator_validate(self, prev, curr, m, overflow_checks) ==
    CASE self = "FungibleIssue" -> fungible_issue(m, prev, curr, overflow_checks)
      [] self = "IdentityTransfer" -> input_output_count_eq(prev, curr)
      [] self = "NftIssue" -> nft_issue(m, prev, curr)
      [] self = "ProofOfBurn" -> proof_of_burn(m)
      [] self = "ProofOfReserve" -> proof_of_reserve(m)
      [] self = "RightsSplit" -> input_output_value_eq(prev, curr)

---------------------------------------------------------------------------
(* AssignmentValidator *)

\* validate_pedersen_sum with the outputs taken from the previous state
validate_pedersen_sum_same_side(previous_state, current_state) ==
    LET inputs == to_confidential_state_pedersen(previous_state)
        outputs == to_confidential_state_pedersen(previous_state)
    IN  IF ~verify_commit_sum(inputs, outputs) THEN "Inflation" ELSE "Ok"

validate_pedersen_sum(previous_state, current_state) ==
    LET inputs == to_confidential_state_pedersen(previous_state)
        outputs == to_confidential_state_pedersen(current_state)
    IN  IF ~verify_commit_sum(inputs, outputs) THEN "Inflation" ELSE "Ok"

\* .try_fold(0u64, |sum, value| sum.checked_add(value))
RECURSIVE try_fold_checked_add(_, _)
try_fold_checked_add(sum, values) ==
    IF values = <<>> THEN [some |-> TRUE, value |-> sum]
    ELSE LET r == checked_add(sum, Head(values))
         IN  IF r.some THEN try_fold_checked_add(r.value, Tail(values)) ELSE r

\* validate_no_overflow folding with a wrapping addition
validate_no_overflow_wrapping(current_state) ==
    LET revealed == as_revealed_state_values(current_state)
    IN  IF ~revealed.ok THEN "ConfidentialState"
        ELSE IF u64_sum(RevealedValues(revealed.values)).value <= U64_MAX THEN "Ok"
        ELSE "ValueOverflow"

validate_no_overflow(current_state) ==
    LET revealed == as_revealed_state_values(current_state)
    IN  IF ~revealed.ok THEN "ConfidentialState"
        ELSE IF ~try_fold_checked_add(0, RevealedValues(revealed.values)).some
             THEN "ValueOverflow"
        ELSE "Ok"

AssignmentValidator_validate(self, previous_state, current_state, m) ==
    CASE self = "FungibleNoInflation" ->
             validate_pedersen_sum(previous_state, current_state)
      [] self = "NoOverflow" -> validate_no_overflow(current_state)

---------------------------------------------------------------------------
(* The entry-point registry: `v as u32` and from_entry_point per family.   *)
(* A decoder returns the variant, or "None".                               *)

AssignmentValidators == {"FungibleNoInflation", "NoOverflow"}

NodeValidators ==
    {"FungibleIssue", "IdentityTransfer", "NftIssue", "ProofOfBurn",
     "ProofOfReserve", "RightsSplit"}

TransitionConstructors == {"OneToOne", "Aggregate"}

\* AssignmentValidator::X as u32
AssignmentValidator_as_u32(v) ==
    CASE v = "FungibleNoInflation" -> 1
      [] v = "NoOverflow" -> 2

\* NodeValidator::X as u32
NodeValidator_as_u32(v) ==
    CASE v = "FungibleIssue" -> 2
      [] v = "IdentityTransfer" -> 17
      [] v = "NftIssue" -> 18
      [] v = "ProofOfBurn" -> 32
      [] v = "ProofOfReserve" -> 33
      [] v = "RightsSplit" -> 48

\* TransitionConstructor::X as u32
TransitionConstructor_as_u32(v) ==
    CASE v = "OneToOne" -> 128
      [] v = "Aggregate" -> 129

AssignmentValidator_from_entry_point(x) ==
    IF x = AssignmentValidator_as_u32("FungibleNoInflation") THEN "FungibleNoInflation"
    ELSE IF x = AssignmentValidator_as_u32("NoOverflow") THEN "NoOverflow"
    ELSE "None"

\* NodeValidator::from_entry_point matching on the low byte of the identifier
NodeValidator_from_entry_point_low_byte(x) ==
    LET b == x % 256
    IN  IF b = NodeValidator_as_u32("FungibleIssue") THEN "FungibleIssue"
        ELSE IF b = NodeValidator_as_u32("IdentityTransfer") THEN "IdentityTransfer"
        ELSE IF b = NodeValidator_as_u32("NftIssue") THEN "NftIssue"
        ELSE IF b = NodeValidator_as_u32("ProofOfBurn") THEN "ProofOfBurn"
        ELSE IF b = NodeValidator_as_u32("ProofOfReserve") THEN "ProofOfReserve"
        ELSE IF b = NodeValidator_as_u32("RightsSplit") THEN "RightsSplit"
        ELSE "None"

NodeValidator_from_entry_point(x) ==
    IF x = NodeValidator_as_u32("FungibleIssue") THEN "FungibleIssue"
    ELSE IF x = NodeValidator_as_u32("IdentityTransfer") THEN "IdentityTransfer"
    ELSE IF x = NodeValidator_as_u32("NftIssue") THEN "NftIssue"
    ELSE IF x = NodeValidator_as_u32("ProofOfBurn") THEN "ProofOfBurn"
    ELSE IF x = NodeValidator_as_u32("ProofOfReserve") THEN "ProofOfReserve"
    ELSE IF x = NodeValidator_as_u32("RightsSplit") THEN "RightsSplit"
    ELSE "None"

TransitionConstructor_from_entry_point(x) ==
    IF x = TransitionConstructor_as_u32("OneToOne") THEN "OneToOne"
    ELSE IF x = TransitionConstructor_as_u32("Aggregate") THEN "Aggregate"
    ELSE "None"

---------------------------------------------------------------------------
(* TransitionConstructor::construct *)

TransitionConstructor_construct(self, _inputs, _outpoints) == "NotImplemented"

---------------------------------------------------------------------------
(* HandlerError and its surfacing as validation::Failure *)

\* the variants of HandlerError, in the order of their declaration
HandlerErrors ==
    <<"NotImplemented", "Inflation", "BrokenSchema", "NonEqualTypes",
      "NonEqualState", "NonEqualAssignmentCount", "ConfidentialState",
      "ValueOverflow", "DataEncoding">>

\* the discriminants counted from 1
HandlerError_as_u16_from_one(e) ==
    CHOOSE i \in 1..Len(HandlerErrors) : HandlerErrors[i] = e

\* #[repr(u16)]: NotImplemented = 0, each later variant one more
HandlerError_as_u16(e) ==
    (CHOOSE i \in 1..Len(HandlerErrors) : HandlerErrors[i] = e) - 1

\* `as u8`
as_u8(x) == x % 256

\* validation::Failure::ScriptFailure
ScriptFailure(node_id, code) ==
    [kind |-> "ScriptFailure", node_id |-> node_id, code |-> code]

\* Ok(())
Success == [kind |-> "Ok"]

\* the call aborted
Aborted == [kind |-> "Panic"]

---------------------------------------------------------------------------
(* EmbeddedVm::validate_node and ValidationScript::validate.  The VM is a  *)
(* record of its handler slots ("None" for an empty slot), of the          *)
(* assignment validators the schema declares per owned-right type, and of  *)
(* the build's overflow checks.  A call returns its result and the         *)
(* procedures it invoked.                                                  *)

\* validate_node taking the genesis handler for every node subtype
EmbeddedVm_validate_node_genesis_only(self, node_id, node_subtype, prev, curr, prev_public, curr_public, m) ==
    LET validator == self.validate_genesis_handler
        r == NodeValidator_validate(validator, prev, curr, m, self.overflow_checks)
    IN  IF validator = "None" THEN [result |-> Success, invoked |-> <<>>]
        ELSE [result |-> IF r = "Ok" THEN Success
                         ELSE IF r = "Panic" THEN Aborted
                         ELSE ScriptFailure(node_id, as_u8(HandlerError_as_u16(r))),
              invoked |-> <<validator>>]

EmbeddedVm_validate_node(self, node_id, node_subtype, prev, curr, prev_public, curr_public, m) ==
    LET validator ==
            CASE node_subtype.kind = "Genesis" -> self.validate_genesis_handler
              [] node_subtype.kind = "StateTransition" -> self.validate_transition_handler
              [] node_subtype.kind = "StateExtension" -> self.validate_extension_handler
        r == NodeValidator_validate(validator, prev, curr, m, self.overflow_checks)
    IN  IF validator = "None" THEN [result |-> Success, invoked |-> <<>>]
        ELSE [result |-> IF r = "Ok" THEN Success
                         ELSE IF r = "Panic" THEN Aborted
                         ELSE ScriptFailure(node_id, as_u8(HandlerError_as_u16(r))),
              invoked |-> <<validator>>]

\* EmbeddedVm::new for the schema whose handlers `embedded` holds
EmbeddedVm_new(embedded) == embedded

\* validate answering the second call on a script with success
ValidationScript_validate_second_free(self, embedded, node_id, node_subtype, prev, curr, prev_public, curr_public, m) ==
    IF Len(history) = 1 THEN [result |-> Success, invoked |-> <<>>]
    ELSE EmbeddedVm_validate_node(EmbeddedVm_new(embedded), node_id, node_subtype,
                                  prev, curr, prev_public, curr_public, m)

\* impl VmApi for ValidationScript, arm Embedded
ValidationScript_validate(self, embedded, node_id, node_subtype, prev, curr, prev_public, curr_public, m) ==
    CASE self = "Embedded" ->
        EmbeddedVm_validate_node(EmbeddedVm_new(embedded), node_id, node_subtype,
                                 prev, curr, prev_public, curr_public, m)

---------------------------------------------------------------------------
(* The dispatch layer takes no part in a direct call of a procedure *)

NoVm == [validate_genesis_handler |-> "None"]

NoDispatch ==
    /\ entry_point = 0
    /\ vm = NoVm
    /\ history = <<>>

---------------------------------------------------------------------------
(* Inputs of the issue procedures *)

SeqsUpTo(S, n) == UNION {[1..k -> S] : k \in 0..n}

Blindings == 0..(BlindOrder - 1)

IssuedValues == {100, 101, U64_HALF}
InflationValues == {900, 1000, U64_HALF}
OwnershipValues == {0, 100, U64_HALF}

InflationItems ==
    {RevealedState(v, 0) : v \in InflationValues}
        \cup {ConfidentialState(commit(1000, 0))}

OwnershipItems ==
    {RevealedState(v, b) : v \in OwnershipValues, b \in Blindings}
        \cup {ConfidentialState(commit(100, ONE_KEY))}

\* Owned rights of an issue node: the non-empty vectors, in type order
IssueRights(inflation, ownership) ==
    (IF inflation = <<>> THEN <<>>
     ELSE <<[type |-> STATE_TYPE_INFLATION_RIGHT,
             vec |-> DiscreteFiniteFieldVec(inflation)]>>)
    \o (IF ownership = <<>> THEN <<>>
        ELSE <<[type |-> STATE_TYPE_OWNERSHIP_RIGHT,
                vec |-> DiscreteFiniteFieldVec(ownership)]>>)

IssueMeta(issued) ==
    IF issued = <<>> THEN <<>> ELSE (FIELD_TYPE_ISSUED_SUPPLY :> issued)

InitIssue ==
    /\ meta \in {IssueMeta(l) : l \in SeqsUpTo(IssuedValues, MaxIssued)}
    /\ previous_owned_rights \in
           {IssueRights(i, o) : i \in SeqsUpTo(InflationItems, MaxPrevInflation),
                                o \in SeqsUpTo(OwnershipItems, MaxOwnership)}
    /\ current_owned_rights \in
           {IssueRights(i, o) : i \in SeqsUpTo(InflationItems, MaxCurrInflation),
                                o \in SeqsUpTo(OwnershipItems, MaxOwnership)}
    /\ proc = "none"
    /\ result = "none"
    /\ NoDispatch

\* NodeValidator::validate, arm FungibleIssue
FungibleIssue ==
    /\ proc = "none"
    /\ \E overflow_checks \in BOOLEAN :
           result' = NodeValidator_validate("FungibleIssue", previous_owned_rights,
                                            current_owned_rights, meta,
                                            overflow_checks)
    /\ proc' = "FungibleIssue"
    /\ UNCHANGED <<meta, previous_owned_rights, current_owned_rights>>
    /\ UNCHANGED <<entry_point, vm, history>>

NextIssue == FungibleIssue

SpecIssue == InitIssue /\ [][NextIssue]_vars

\* The issue scenarios of one assignment per right: S1 and its neighbours
InitScenario ==
    /\ meta \in {IssueMeta(<<i>>) : i \in IssuedValues}
    /\ previous_owned_rights \in
           {IssueRights(<<RevealedState(a, 0)>>, <<>>) : a \in InflationValues}
    /\ current_owned_rights \in
           {IssueRights(<<RevealedState(f, 0)>>, <<RevealedState(v, b)>>) :
                f \in InflationValues, v \in OwnershipValues, b \in Blindings}
    /\ proc = "none"
    /\ result = "none"
    /\ NoDispatch

SpecScenario == InitScenario /\ [][NextIssue]_vars

---------------------------------------------------------------------------
(* Vocabulary of the claims about FungibleIssue *)

RECURSIVE IntSum(_)
IntSum(s) == IF s = <<>> THEN 0 ELSE Head(s) + IntSum(Tail(s))

ItemsOf(rights, t) == assignments_by_type(rights, t).items

AllRevealed(items) == \A i \in 1..Len(items) : items[i].revealed

AllInflationRevealed ==
    /\ AllRevealed(ItemsOf(previous_owned_rights, STATE_TYPE_INFLATION_RIGHT))
    /\ AllRevealed(ItemsOf(current_owned_rights, STATE_TYPE_INFLATION_RIGHT))

\* the true (unbounded) integer sums of the claim
IssuedInt == IntSum(meta_u64(meta, FIELD_TYPE_ISSUED_SUPPLY))
AllowedInt ==
    IntSum(RevealedValues(ItemsOf(previous_owned_rights, STATE_TYPE_INFLATION_RIGHT)))
FutureInt ==
    IntSum(RevealedValues(ItemsOf(current_owned_rights, STATE_TYPE_INFLATION_RIGHT)))

OwnershipCommitments(rights) ==
    to_confidential_state_pedersen(assignments_by_type(rights, STATE_TYPE_OWNERSHIP_RIGHT))

OwnershipValueSum(rights) ==
    LET c == OwnershipCommitments(rights) IN IntSum([i \in 1..Len(c) |-> c[i].v])

OwnershipBlindingSum(rights) ==
    LET c == OwnershipCommitments(rights) IN IntSum([i \in 1..Len(c) |-> c[i].b])

OwnershipBalanced ==
    /\ OwnershipValueSum(current_owned_rights)
           = OwnershipValueSum(previous_owned_rights) + IssuedInt
    /\ OwnershipBlindingSum(current_owned_rights) % BlindOrder
           = (OwnershipBlindingSum(previous_owned_rights) + ONE_KEY) % BlindOrder

IssueCalled == proc = "FungibleIssue"

\* C1: with every inflation right revealed, FungibleIssue succeeds only if
\* issued + future = allowed as integers, and returns Inflation whenever
\* issued + future differs from allowed.
C1_InflationEquation ==
    (IssueCalled /\ AllInflationRevealed) =>
        /\ result = "Ok" => IssuedInt + FutureInt = AllowedInt
        /\ IssuedInt + FutureInt # AllowedInt => result = "Inflation"

\* C2: every sum FungibleIssue forms is a checked u64 addition: a sum above
\* 2^64-1 gives ValueOverflow, no wrapped sum lets a violating input pass,
\* and no input aborts the call.
C2_CheckedAddition ==
    IssueCalled =>
        /\ result # "Panic"
        /\ AllInflationRevealed =>
              /\ (\/ IssuedInt > U64_MAX
                  \/ AllowedInt > U64_MAX
                  \/ FutureInt > U64_MAX
                  \/ IssuedInt + FutureInt > U64_MAX) => result = "ValueOverflow"
              /\ result = "Ok" => IssuedInt + FutureInt = AllowedInt

\* C3: once the inflation equation holds, FungibleIssue succeeds iff the
\* current ownership commitments sum to the previous ones plus
\* commit(issued, ONE_KEY), and returns Inflation otherwise.
C3_CommitmentSum ==
    (IssueCalled /\ AllInflationRevealed /\ IssuedInt + FutureInt = AllowedInt) =>
        result = (IF OwnershipBalanced THEN "Ok" ELSE "Inflation")

\* Scenario S1 with blinding factor b1 on the issued ownership right
IsS1(b1) ==
    /\ meta = IssueMeta(<<100>>)
    /\ previous_owned_rights = IssueRights(<<RevealedState(1000, 0)>>, <<>>)
    /\ current_owned_rights =
           IssueRights(<<RevealedState(900, 0)>>, <<RevealedState(100, b1)>>)

\* C4 as claimed: scenario S1 returns Ok(()) whatever the blinding factor B1.
C4_S1_AnyBlinding ==
    \A b1 \in Blindings : (IssueCalled /\ IsS1(b1)) => result = "Ok"

\* C4 amended: scenario S1 returns Ok(()) when B1 = ONE_KEY and
\* Err(Inflation) for every other blinding factor B1.
C4_S1_OneKeyBlinding ==
    \A b1 \in Blindings :
        (IssueCalled /\ IsS1(b1)) =>
            result = (IF b1 = ONE_KEY THEN "Ok" ELSE "Inflation")

C4_Witness == IssueCalled /\ IsS1(ONE_KEY) /\ result = "Ok"

\* C5: FungibleIssue returns ConfidentialState whenever an inflation right of
\* the previous or current owned rights is confidential, for every metadata
\* and every ownership rights.
C5_ConfidentialFirst ==
    (IssueCalled /\ ~AllInflationRevealed) => result = "ConfidentialState"

---------------------------------------------------------------------------
(* Assignment validators, applied to the ownership-right assignments *)

AssignmentItems ==
    {RevealedState(1, 0), RevealedState(1, ONE_KEY), RevealedState(2, ONE_KEY),
     RevealedState(U64_MAX, 0), ConfidentialState(commit(1, ONE_KEY))}

AssignmentRights(items) ==
    <<[type |-> STATE_TYPE_OWNERSHIP_RIGHT, vec |-> DiscreteFiniteFieldVec(items)]>>

AssignmentMetas == {<<>>, IssueMeta(<<100>>)}

InitAssign ==
    /\ meta \in AssignmentMetas
    /\ previous_owned_rights \in
           {AssignmentRights(l) : l \in SeqsUpTo(AssignmentItems, MaxAssignments)}
    /\ current_owned_rights \in
           {AssignmentRights(l) : l \in SeqsUpTo(AssignmentItems, MaxAssignments)}
    /\ proc = "none"
    /\ result = "none"
    /\ NoDispatch

previous_state == assignments_by_type(previous_owned_rights, STATE_TYPE_OWNERSHIP_RIGHT)
current_state == assignments_by_type(current_owned_rights, STATE_TYPE_OWNERSHIP_RIGHT)

\* AssignmentValidator::validate, arm FungibleNoInflation
FungibleNoInflation ==
    /\ proc = "none"
    /\ result' = AssignmentValidator_validate("FungibleNoInflation",
                                              previous_state, current_state, meta)
    /\ proc' = "FungibleNoInflation"
    /\ UNCHANGED <<meta, previous_owned_rights, current_owned_rights>>
    /\ UNCHANGED <<entry_point, vm, history>>

\* AssignmentValidator::validate, arm NoOverflow
NoOverflow ==
    /\ proc = "none"
    /\ result' = AssignmentValidator_validate("NoOverflow",
                                              previous_state, current_state, meta)
    /\ proc' = "NoOverflow"
    /\ UNCHANGED <<meta, previous_owned_rights, current_owned_rights>>
    /\ UNCHANGED <<entry_point, vm, history>>

NextAssign == FungibleNoInflation \/ NoOverflow

SpecAssign == InitAssign /\ [][NextAssign]_vars

---------------------------------------------------------------------------
(* Vocabulary of the claims about the assignment validators *)

\* every reordering of a sequence
Reorderings(s) ==
    {[i \in 1..Len(s) |-> s[f[i]]] : f \in Permutations(1..Len(s))}

\* the (value, blinding) opening behind an assignment's commitment
OpeningValue(a) == IF a.revealed THEN a.value ELSE a.commitment.v
OpeningBlinding(a) == IF a.revealed THEN a.blinding ELSE a.commitment.b

ValueTotal(items) == IntSum([i \in 1..Len(items) |-> OpeningValue(items[i])])
BlindingTotal(items) ==
    IntSum([i \in 1..Len(items) |-> OpeningBlinding(items[i])]) % BlindOrder

\* C6: FungibleNoInflation returns Ok iff the previous and the current
\* commitments have equal sums (equal value totals and equal blinding totals)
\* and Inflation otherwise; the verdict is the same for every reordering of
\* either side; net creation and net destruction of value are both rejected.
C6_NoInflation ==
    proc = "FungibleNoInflation" =>
        /\ result = (IF /\ ValueTotal(previous_state.items) = ValueTotal(current_state.items)
                        /\ BlindingTotal(previous_state.items)
                               = BlindingTotal(current_state.items)
                     THEN "Ok" ELSE "Inflation")
        /\ \A p \in Reorderings(previous_state.items),
              c \in Reorderings(current_state.items) :
               validate_pedersen_sum(DiscreteFiniteFieldVec(p),
                                     DiscreteFiniteFieldVec(c)) = result
        /\ ValueTotal(current_state.items) > ValueTotal(previous_state.items)
               => result = "Inflation"
        /\ ValueTotal(current_state.items) < ValueTotal(previous_state.items)
               => result = "Inflation"

\* one assignment of value 2 split into two of value 1, blinding preserved
C6_Witness ==
    /\ proc = "FungibleNoInflation"
    /\ result = "Ok"
    /\ previous_state.items = <<RevealedState(2, ONE_KEY)>>
    /\ current_state.items = <<RevealedState(1, ONE_KEY), RevealedState(1, 0)>>

\* C7: NoOverflow depends on the current assignments only: ConfidentialState
\* if some current element is not revealed, otherwise Ok if the integer sum of
\* the revealed values is at most U64_MAX and ValueOverflow if it is above;
\* neither the previous state nor the metadata changes the result.
C7_NoOverflow ==
    proc = "NoOverflow" =>
        /\ result =
              (IF ~AllRevealed(current_state.items) THEN "ConfidentialState"
               ELSE IF IntSum(RevealedValues(current_state.items)) <= U64_MAX THEN "Ok"
               ELSE "ValueOverflow")
        /\ \A p \in SeqsUpTo(AssignmentItems, 1), m \in AssignmentMetas :
               AssignmentValidator_validate("NoOverflow", DiscreteFiniteFieldVec(p),
                                            current_state, m) = result

\* scenario S4: [u64::MAX, 1]
C7_Witness ==
    /\ proc = "NoOverflow"
    /\ result = "ValueOverflow"
    /\ RevealedValues(current_state.items) = <<U64_MAX, 1>>

---------------------------------------------------------------------------
(* Inputs of the transfer procedures: up to two right types, the inflation *)
(* right carrying the state-bearing vectors, the ownership right mostly    *)
(* declarative ones.                                                       *)

SeqsFromTo(S, lo, hi) == UNION {[1..k -> S] : k \in lo..hi}

ValueItems ==
    {RevealedState(1, 0), RevealedState(1, ONE_KEY), RevealedState(2, 0),
     ConfidentialState(commit(1, 0))}

DataItems == {RevealedData(1), RevealedData(2), ConfidentialData(data_conceal(1))}

DeclarativeVecs(n) == {DeclarativeVec([i \in 1..k |-> VoidState]) : k \in 1..n}

InflationVecs ==
    DeclarativeVecs(1)
        \cup {DiscreteFiniteFieldVec(l) : l \in SeqsFromTo(ValueItems, 1, MaxItems)}
        \cup {CustomDataVec(l) : l \in SeqsFromTo(DataItems, 1, MaxItems)}

OwnershipVecs ==
    DeclarativeVecs(MaxDeclarative)
        \cup {DiscreteFiniteFieldVec(<<a>>) : a \in {RevealedState(1, 0), RevealedState(2, 0)}}

TransferRights ==
    {i \o o : i \in {<<>>} \cup {<<[type |-> STATE_TYPE_INFLATION_RIGHT, vec |-> v]>> :
                                     v \in InflationVecs},
              o \in {<<>>} \cup {<<[type |-> STATE_TYPE_OWNERSHIP_RIGHT, vec |-> v]>> :
                                     v \in OwnershipVecs}}

InitTransfer ==
    /\ meta = <<>>
    /\ previous_owned_rights \in TransferRights
    /\ current_owned_rights \in TransferRights
    /\ proc = "none"
    /\ result = "none"
    /\ NoDispatch

\* NodeValidator::validate, arm IdentityTransfer
IdentityTransfer ==
    /\ proc = "none"
    /\ \E overflow_checks \in BOOLEAN :
           result' = NodeValidator_validate("IdentityTransfer", previous_owned_rights,
                                            current_owned_rights, meta,
                                            overflow_checks)
    /\ proc' = "IdentityTransfer"
    /\ UNCHANGED <<meta, previous_owned_rights, current_owned_rights>>
    /\ UNCHANGED <<entry_point, vm, history>>

\* NodeValidator::validate, arm RightsSplit
RightsSplit ==
    /\ proc = "none"
    /\ \E overflow_checks \in BOOLEAN :
           result' = NodeValidator_validate("RightsSplit", previous_owned_rights,
                                            current_owned_rights, meta,
                                            overflow_checks)
    /\ proc' = "RightsSplit"
    /\ UNCHANGED <<meta, previous_owned_rights, current_owned_rights>>
    /\ UNCHANGED <<entry_point, vm, history>>

NextTransfer == IdentityTransfer \/ RightsSplit

SpecTransfer == InitTransfer /\ [][NextTransfer]_vars

---------------------------------------------------------------------------
(* Vocabulary of the claims about IdentityTransfer and RightsSplit *)

Prev == previous_owned_rights
Curr == current_owned_rights

\* same number of right types, same types position by position, same count
SameStructure ==
    /\ Len(Prev) = Len(Curr)
    /\ \A i \in 1..Len(Prev) :
           /\ Prev[i].type = Curr[i].type
           /\ Len(Prev[i].vec.items) = Len(Curr[i].vec.items)

SameVariants ==
    \A i \in 1..Len(Prev) : Prev[i].vec.state_type = Curr[i].vec.state_type

\* the owned rights with every assignment's state erased
Erased(rights) ==
    [i \in 1..Len(rights) |->
        [type |-> rights[i].type,
         vec |-> DeclarativeVec([j \in 1..Len(rights[i].vec.items) |-> VoidState])]]

\* state equivalence of the assignments at one position
Equivalent(variant, p, c) ==
    CASE variant = "Declarative" -> TRUE
      [] variant = "DiscreteFiniteField" ->
             IF p.revealed /\ c.revealed THEN p.value = c.value
             ELSE commit(OpeningValue(p), OpeningBlinding(p))
                      = commit(OpeningValue(c), OpeningBlinding(c))
      [] variant = "CustomData" ->
             (IF p.revealed THEN data_conceal(p.data) ELSE p.digest)
                 = (IF c.revealed THEN data_conceal(c.data) ELSE c.digest)

EquivalentAt(i, j) ==
    Equivalent(Prev[i].vec.state_type, Prev[i].vec.items[j], Curr[i].vec.items[j])

Positions == {<<i, j>> : i \in 1..Len(Prev), j \in 1..(MaxItems + MaxDeclarative)}

FailingPositions ==
    {x \in Positions : x[2] <= Len(Prev[x[1]].vec.items) /\ ~EquivalentAt(x[1], x[2])}

Before(x, y) == x[1] < y[1] \/ (x[1] = y[1] /\ x[2] <= y[2])

FirstFailing == CHOOSE x \in FailingPositions : \A y \in FailingPositions : Before(x, y)

\* the error the claim assigns to a failing position
PositionError(i, j) ==
    LET p == Prev[i].vec.items[j]
        c == Curr[i].vec.items[j]
    IN  IF Prev[i].vec.state_type = "DiscreteFiniteField"
        THEN (IF p.revealed /\ c.revealed THEN "NonEqualState" ELSE "ConfidentialState")
        ELSE "NonEqualState"

TransferMetas == {<<>>, IssueMeta(<<100>>)}

\* C8: IdentityTransfer succeeds iff previous and current owned rights have
\* the same number of right types, the same types position by position and
\* the same number of assignments per type; assignment state and metadata
\* are not inspected; 3 previous against 2 current assignments of type 0xA1
\* fail.
C8_IdentityTransfer ==
    proc = "IdentityTransfer" =>
        /\ result = "Ok" <=> SameStructure
        /\ \A m \in TransferMetas, oc \in BOOLEAN :
               NodeValidator_validate("IdentityTransfer", Erased(Prev), Erased(Curr),
                                      m, oc) = result
        /\ (/\ Len(ItemsOf(Prev, STATE_TYPE_OWNERSHIP_RIGHT)) = 3
            /\ Len(ItemsOf(Curr, STATE_TYPE_OWNERSHIP_RIGHT)) = 2) => result # "Ok"

\* scenario S5
C8_Witness ==
    /\ proc = "IdentityTransfer"
    /\ Len(Prev) = 1 /\ Len(Curr) = 1
    /\ Len(ItemsOf(Prev, STATE_TYPE_OWNERSHIP_RIGHT)) = 3
    /\ Len(ItemsOf(Curr, STATE_TYPE_OWNERSHIP_RIGHT)) = 2
    /\ result = "NonEqualAssignmentCount"

\* C9: RightsSplit succeeds iff IdentityTransfer succeeds on the same owned
\* rights, every type has the same variant on both sides and every position
\* is state-equivalent; it never succeeds where IdentityTransfer fails.
C9_RightsSplit ==
    proc = "RightsSplit" =>
        /\ result = "Ok" <=>
              /\ input_output_count_eq(Prev, Curr) = "Ok"
              /\ SameStructure
              /\ SameVariants
              /\ FailingPositions = {}
        /\ input_output_count_eq(Prev, Curr) # "Ok" => result # "Ok"

\* a revealed value accepted against its own commitment, a second position
\* accepted on equal values with different blinding factors
C9_Witness ==
    /\ proc = "RightsSplit"
    /\ result = "Ok"
    /\ ItemsOf(Prev, STATE_TYPE_INFLATION_RIGHT)
           = <<RevealedState(1, 0), RevealedState(1, 0)>>
    /\ ItemsOf(Curr, STATE_TYPE_INFLATION_RIGHT)
           = <<ConfidentialState(commit(1, 0)), RevealedState(1, ONE_KEY)>>
    /\ Len(Prev) = 2

\* C10: on inputs that pass the structural checks, RightsSplit returns the
\* error of the first failing position (type order, then assignment order):
\* NonEqualState for two revealed values that differ, ConfidentialState for
\* differing commitments when a side is confidential, NonEqualState for
\* differing data projections.
C10_FirstFailingPosition ==
    (proc = "RightsSplit" /\ SameStructure /\ SameVariants /\ FailingPositions # {}) =>
        result = PositionError(FirstFailing[1], FirstFailing[2])

\* a commitment mismatch at the first position decides, although the second
\* position holds two different revealed values
C10_Witness ==
    /\ proc = "RightsSplit"
    /\ result = "ConfidentialState"
    /\ SameStructure /\ SameVariants
    /\ FailingPositions = {<<1, 1>>, <<1, 2>>}
    /\ PositionError(1, 2) = "NonEqualState"

---------------------------------------------------------------------------
(* The unreachable arm of RightsSplit *)

\* right types present on both sides with different assignment-vector variants
CrossVariantTypes ==
    {t \in {Prev[i].type : i \in 1..Len(Prev)} \cap {Curr[i].type : i \in 1..Len(Curr)} :
        assignments_by_type(Prev, t).state_type # assignments_by_type(Curr, t).state_type}

\* position i passes every check RightsSplit makes on it
PositionPasses(i) ==
    /\ Prev[i].type = Curr[i].type
    /\ Prev[i].vec.state_type = Curr[i].vec.state_type
    /\ Len(Prev[i].vec.items) = Len(Curr[i].vec.items)
    /\ \A j \in 1..Len(Prev[i].vec.items) : EquivalentAt(i, j)

\* the scan arrives at position i, whose right types are equal and whose
\* variants differ
CrossVariantReached(i) ==
    /\ Len(Prev) = Len(Curr)
    /\ i \in 1..Len(Prev)
    /\ \A k \in 1..(i - 1) : PositionPasses(k)
    /\ Prev[i].type = Curr[i].type
    /\ Prev[i].vec.state_type # Curr[i].vec.state_type

\* C11 as claimed: RightsSplit never aborts, and whenever a right type has
\* different assignment-vector variants in previous and current owned rights
\* the call returns BrokenSchema.
C11_CrossVariantAlways ==
    proc = "RightsSplit" =>
        /\ result # "Panic"
        /\ CrossVariantTypes # {} => result = "BrokenSchema"

\* C11 amended: RightsSplit never aborts (the unreachable arm is never
\* reached); it returns BrokenSchema exactly when the two maps have the same
\* number of right types and the scan arrives at a position whose right types
\* are equal and whose variants differ, whatever the assignment counts there;
\* a variant mismatch behind an earlier failure is reported as that failure.
C11_CrossVariantReached ==
    proc = "RightsSplit" =>
        /\ result # "Panic"
        /\ result = "BrokenSchema" <=> \E i \in 1..Len(Prev) : CrossVariantReached(i)

\* the first right type passes; the second is declarative with three
\* assignments before and carries one value after
C11_Witness ==
    /\ proc = "RightsSplit"
    /\ result = "BrokenSchema"
    /\ CrossVariantReached(2)
    /\ Prev[2].vec.state_type = "Declarative"
    /\ Curr[2].vec.state_type = "DiscreteFiniteField"
    /\ Len(Prev[2].vec.items) = 3 /\ Len(Curr[2].vec.items) = 1

---------------------------------------------------------------------------
(* Inputs of the count comparison: any of three right types, each with a   *)
(* declarative vector of one to MaxCount assignments                       *)

CountTypes ==
    <<STATE_TYPE_INFLATION_RIGHT, STATE_TYPE_OWNERSHIP_RIGHT,
      STATE_TYPE_ISSUE_EPOCH_RIGHT>>

\* the entries of three optional vectors (<<>> when the type is absent), in
\* type order
CountEntries(vecs) ==
    LET entry(k) == IF vecs[k] = <<>> THEN <<>>
                    ELSE <<[type |-> CountTypes[k], vec |-> vecs[k]]>>
    IN  entry(1) \o entry(2) \o entry(3)

CountRights ==
    {CountEntries(vecs) : vecs \in [1..3 -> {<<>>} \cup DeclarativeVecs(MaxCount)]}

InitCount ==
    /\ meta = <<>>
    /\ previous_owned_rights \in CountRights
    /\ current_owned_rights \in CountRights
    /\ proc = "none"
    /\ result = "none"
    /\ NoDispatch

NextCount == IdentityTransfer

SpecCount == InitCount /\ [][NextCount]_vars

\* positions at which the right types or the assignment counts differ
MismatchPositions ==
    {i \in 1..Len(Prev) :
        i <= Len(Curr) /\
        (Prev[i].type # Curr[i].type
            \/ Len(Prev[i].vec.items) # Len(Curr[i].vec.items))}

FirstMismatch == CHOOSE i \in MismatchPositions : \A k \in MismatchPositions : i <= k

\* the owned rights that agree with c on its first n positions
AgreeingUpTo(c, n) ==
    {d \in CountRights : Len(d) = Len(c) /\ \A k \in 1..n : d[k] = c[k]}

\* C20: IdentityTransfer returns NonEqualTypes when the two maps have
\* different numbers of right types, whatever their counts; otherwise the
\* first mismatching position decides: NonEqualTypes if the right types
\* differ there, NonEqualAssignmentCount if only the counts differ; what
\* follows that position does not change the error.
C20_ErrorSelection ==
    proc = "IdentityTransfer" =>
        /\ Len(Prev) # Len(Curr) => result = "NonEqualTypes"
        /\ (Len(Prev) = Len(Curr) /\ MismatchPositions = {}) => result = "Ok"
        /\ (Len(Prev) = Len(Curr) /\ MismatchPositions # {}) =>
              /\ result = (IF Prev[FirstMismatch].type # Curr[FirstMismatch].type
                           THEN "NonEqualTypes" ELSE "NonEqualAssignmentCount")
              /\ \A d \in AgreeingUpTo(Curr, FirstMismatch) :
                     input_output_count_eq(Prev, d) = result

\* the counts differ at the first position, the right types at the second
C20_Witness ==
    /\ proc = "IdentityTransfer"
    /\ result = "NonEqualAssignmentCount"
    /\ Len(Prev) = 2 /\ Len(Curr) = 2
    /\ MismatchPositions = {1, 2}
    /\ Prev[2].type # Curr[2].type

---------------------------------------------------------------------------
(* Inputs of the NFT issue: inflation rights that are all revealed or hold *)
(* one confidential element, ownership rights carrying data                *)

\* k revealed inflation rights; with c in 1..k, the c-th one confidential
InflationRights(k, c) ==
    [i \in 1..k |-> IF i = c THEN ConfidentialState(commit(1, 0))
                    ELSE RevealedState(1, 0)]

InflationRightsUpTo(n) == {InflationRights(k, c) : k \in 0..n, c \in 0..n}

Tokens(k) == [i \in 1..k |-> RevealedData(i)]

NftRights(inflation, ownership) ==
    (IF inflation = <<>> THEN <<>>
     ELSE <<[type |-> STATE_TYPE_INFLATION_RIGHT,
             vec |-> DiscreteFiniteFieldVec(inflation)]>>)
    \o (IF ownership = <<>> THEN <<>>
        ELSE <<[type |-> STATE_TYPE_OWNERSHIP_RIGHT,
                vec |-> CustomDataVec(ownership)]>>)

InitNft ==
    /\ meta \in AssignmentMetas
    /\ previous_owned_rights \in
           {NftRights(i, Tokens(k)) : i \in InflationRightsUpTo(MaxNftPrevInflation),
                                     k \in 0..MaxNftPrevOwnership}
    /\ current_owned_rights \in
           {NftRights(i, Tokens(k)) : i \in InflationRightsUpTo(MaxNftCurrInflation),
                                     k \in 0..MaxNftOwnership}
    /\ proc = "none"
    /\ result = "none"
    /\ NoDispatch

\* NodeValidator::validate, arm NftIssue
NftIssue ==
    /\ proc = "none"
    /\ \E overflow_checks \in BOOLEAN :
           result' = NodeValidator_validate("NftIssue", previous_owned_rights,
                                            current_owned_rights, meta,
                                            overflow_checks)
    /\ proc' = "NftIssue"
    /\ UNCHANGED <<meta, previous_owned_rights, current_owned_rights>>
    /\ UNCHANGED <<entry_point, vm, history>>

NextNft == NftIssue

SpecNft == InitNft /\ [][NextNft]_vars

\* the number of assignments of a right type
CountOf(rights, t) == Len(ItemsOf(rights, t))

---------------------------------------------------------------------------
(* The stubbed procedures *)

\* byte strings, as sequences of bytes
LockDescriptors == {<<>>, <<118, 1>>, <<118, 2>>}

LockMeta(values) == FIELD_TYPE_LOCK_DESCRIPTOR :> values

StubMetas ==
    {<<>>, IssueMeta(<<100>>), LockMeta(<<>>)}
        \cup {LockMeta(<<d>>) : d \in LockDescriptors}
        \cup {LockMeta(<<<<118, 1>>, <<118, 2>>>>),
              IssueMeta(<<100>>) @@ LockMeta(<<<<118, 1>>>>)}

StubRights ==
    {<<>>, AssignmentRights(<<RevealedState(1, 0)>>),
     NftRights(InflationRights(1, 0), Tokens(1))}

\* references to the outputs of contract nodes, and transaction outpoints
NodeOutputs == {"node_output_1", "node_output_2"}
OutPoints == {"outpoint_1", "outpoint_2"}

InitStub ==
    /\ meta \in StubMetas
    /\ previous_owned_rights \in StubRights
    /\ current_owned_rights \in StubRights
    /\ proc = "none"
    /\ result = "none"
    /\ NoDispatch

\* NodeValidator::validate, arm ProofOfBurn
ProofOfBurn ==
    /\ proc = "none"
    /\ \E overflow_checks \in BOOLEAN :
           result' = NodeValidator_validate("ProofOfBurn", previous_owned_rights,
                                            current_owned_rights, meta,
                                            overflow_checks)
    /\ proc' = "ProofOfBurn"
    /\ UNCHANGED <<meta, previous_owned_rights, current_owned_rights>>
    /\ UNCHANGED <<entry_point, vm, history>>

\* NodeValidator::validate, arm ProofOfReserve
ProofOfReserve ==
    /\ proc = "none"
    /\ \E overflow_checks \in BOOLEAN :
           result' = NodeValidator_validate("ProofOfReserve", previous_owned_rights,
                                            current_owned_rights, meta,
                                            overflow_checks)
    /\ proc' = "ProofOfReserve"
    /\ UNCHANGED <<meta, previous_owned_rights, current_owned_rights>>
    /\ UNCHANGED <<entry_point, vm, history>>

\* TransitionConstructor::construct
Construct ==
    /\ proc = "none"
    /\ \E self \in {"OneToOne", "Aggregate"},
          inputs \in SUBSET NodeOutputs, outpoints \in SUBSET OutPoints :
           /\ result' = TransitionConstructor_construct(self, inputs, outpoints)
           /\ proc' = self
    /\ UNCHANGED <<meta, previous_owned_rights, current_owned_rights>>
    /\ UNCHANGED <<entry_point, vm, history>>

NextStub == ProofOfBurn \/ ProofOfReserve \/ Construct

SpecStub == InitStub /\ [][NextStub]_vars

\* the metadata has a LOCK_DESCRIPTOR field that holds at least one value
HasLockDescriptor ==
    /\ FIELD_TYPE_LOCK_DESCRIPTOR \in DOMAIN meta
    /\ Len(meta[FIELD_TYPE_LOCK_DESCRIPTOR]) > 0

---------------------------------------------------------------------------
(* Decoding of entry points *)

EntryPoints == 0..(2 ^ EntryPointBits - 1)

InitRegistry ==
    /\ meta = <<>>
    /\ previous_owned_rights = <<>>
    /\ current_owned_rights = <<>>
    /\ proc = "none"
    /\ result = "none"
    /\ entry_point \in EntryPoints
    /\ vm = NoVm
    /\ history = <<>>

\* AssignmentValidator::from_entry_point
DecodeAssignmentValidator ==
    /\ proc = "none"
    /\ result' = AssignmentValidator_from_entry_point(entry_point)
    /\ proc' = "AssignmentValidator::from_entry_point"
    /\ UNCHANGED <<meta, previous_owned_rights, current_owned_rights>>
    /\ UNCHANGED <<entry_point, vm, history>>

\* NodeValidator::from_entry_point
DecodeNodeValidator ==
    /\ proc = "none"
    /\ result' = NodeValidator_from_entry_point(entry_point)
    /\ proc' = "NodeValidator::from_entry_point"
    /\ UNCHANGED <<meta, previous_owned_rights, current_owned_rights>>
    /\ UNCHANGED <<entry_point, vm, history>>

\* TransitionConstructor::from_entry_point
DecodeTransitionConstructor ==
    /\ proc = "none"
    /\ result' = TransitionConstructor_from_entry_point(entry_point)
    /\ proc' = "TransitionConstructor::from_entry_point"
    /\ UNCHANGED <<meta, previous_owned_rights, current_owned_rights>>
    /\ UNCHANGED <<entry_point, vm, history>>

NextRegistry ==
    DecodeAssignmentValidator \/ DecodeNodeValidator \/ DecodeTransitionConstructor

SpecRegistry == InitRegistry /\ [][NextRegistry]_vars

\* the identifiers the claim lists, per family
AssignmentValidatorIds == ("FungibleNoInflation" :> 1) @@ ("NoOverflow" :> 2)

NodeValidatorIds ==
    ("FungibleIssue" :> 2) @@ ("IdentityTransfer" :> 17) @@ ("NftIssue" :> 18)
        @@ ("ProofOfBurn" :> 32) @@ ("ProofOfReserve" :> 33) @@ ("RightsSplit" :> 48)

TransitionConstructorIds == ("OneToOne" :> 128) @@ ("Aggregate" :> 129)

\* what a total decoder of the table ids returns on x
Decoded(ids, x) ==
    IF \E v \in DOMAIN ids : ids[v] = x
    THEN CHOOSE v \in DOMAIN ids : ids[v] = x
    ELSE "None"

\* C15: per family, from_entry_point(v as u32) = Some(v) for every variant v
\* with the listed identifiers, and from_entry_point(id) = None for every
\* other id, ids of another family included.
C15_RoundTrip ==
    /\ DOMAIN AssignmentValidatorIds = AssignmentValidators
    /\ DOMAIN NodeValidatorIds = NodeValidators
    /\ DOMAIN TransitionConstructorIds = TransitionConstructors
    /\ \A v \in AssignmentValidators :
           /\ AssignmentValidator_as_u32(v) = AssignmentValidatorIds[v]
           /\ AssignmentValidator_from_entry_point(AssignmentValidator_as_u32(v)) = v
    /\ \A v \in NodeValidators :
           /\ NodeValidator_as_u32(v) = NodeValidatorIds[v]
           /\ NodeValidator_from_entry_point(NodeValidator_as_u32(v)) = v
    /\ \A v \in TransitionConstructors :
           /\ TransitionConstructor_as_u32(v) = TransitionConstructorIds[v]
           /\ TransitionConstructor_from_entry_point(TransitionConstructor_as_u32(v)) = v
    /\ proc = "AssignmentValidator::from_entry_point" =>
           result = Decoded(AssignmentValidatorIds, entry_point)
    /\ proc = "NodeValidator::from_entry_point" =>
           result = Decoded(NodeValidatorIds, entry_point)
    /\ proc = "TransitionConstructor::from_entry_point" =>
           result = Decoded(TransitionConstructorIds, entry_point)

\* 0x01 names an assignment validator only: the node decoder rejects it
C15_Witness ==
    /\ proc = "NodeValidator::from_entry_point"
    /\ entry_point = AssignmentValidatorIds["FungibleNoInflation"]
    /\ result = "None"

---------------------------------------------------------------------------
(* Inputs of the dispatch layer *)

NodeIds == {1, 2}

NodeSubtypes ==
    {[kind |-> "Genesis"], [kind |-> "StateTransition", type |-> 1],
     [kind |-> "StateExtension", type |-> 1]}

\* the owned-right types the schema declares
OwnedRightTypes ==
    {STATE_TYPE_INFLATION_RIGHT, STATE_TYPE_OWNERSHIP_RIGHT,
     STATE_TYPE_ISSUE_EPOCH_RIGHT}

EpochRights(vec) == <<[type |-> STATE_TYPE_ISSUE_EPOCH_RIGHT, vec |-> vec]>>

NodeState(prev, curr, prev_public, curr_public, m) ==
    [previous_owned_rights |-> prev, current_owned_rights |-> curr,
     previous_public_rights |-> prev_public, current_public_rights |-> curr_public,
     current_meta |-> m]

\* the nodes handed to validate: their rights and metadata
NodeStates ==
    {NodeState(<<>>, <<>>, {}, {}, <<>>),
     NodeState(<<>>, <<>>, {1}, {}, <<>>),
     NodeState(<<>>, <<>>, {}, {1}, LockMeta(<<<<118, 1>>>>)),
     NodeState(IssueRights(<<RevealedState(1000, 0)>>, <<>>),
               IssueRights(<<RevealedState(900, 0)>>, <<RevealedState(100, ONE_KEY)>>),
               {}, {}, IssueMeta(<<100>>)),
     NodeState(IssueRights(<<ConfidentialState(commit(1000, 0))>>, <<>>),
               IssueRights(<<RevealedState(900, 0)>>, <<RevealedState(100, ONE_KEY)>>),
               {}, {}, IssueMeta(<<100>>)),
     NodeState(IssueRights(<<RevealedState(U64_HALF, 0), RevealedState(U64_HALF, 0)>>, <<>>),
               IssueRights(<<>>, <<RevealedState(0, ONE_KEY)>>),
               {}, {}, <<>>),
     NodeState(AssignmentRights(<<RevealedState(1, 0)>>),
               AssignmentRights(<<RevealedState(2, 0)>>),
               {1}, {1}, <<>>),
     NodeState(AssignmentRights(<<RevealedState(U64_MAX, 0), RevealedState(1, 0)>>),
               AssignmentRights(<<RevealedState(U64_MAX, 0), RevealedState(1, 0)>>),
               {}, {}, <<>>),
     NodeState(EpochRights(DeclarativeVec(<<VoidState, VoidState, VoidState>>)),
               EpochRights(DeclarativeVec(<<VoidState, VoidState>>)),
               {}, {}, <<>>),
     NodeState(EpochRights(DeclarativeVec(<<VoidState>>)),
               EpochRights(DiscreteFiniteFieldVec(<<RevealedState(1, 0)>>)),
               {}, {}, <<>>)}

Calls ==
    {[node_id |-> n, node_subtype |-> t, node |-> s] :
        n \in NodeIds, t \in NodeSubtypes, s \in NodeStates}

NodeHandlers == {"None"} \cup NodeValidators

\* the assignment validators a schema declares, per owned-right type
AssignmentHandlers ==
    {[t \in OwnedRightTypes |->
         IF t = STATE_TYPE_OWNERSHIP_RIGHT THEN a ELSE "None"] :
        a \in {"None"} \cup AssignmentValidators}

EmbeddedVm(genesis, transition, extension, assignment, overflow_checks) ==
    [validate_genesis_handler |-> genesis,
     validate_transition_handler |-> transition,
     validate_extension_handler |-> extension,
     validate_assignment_handler |-> assignment,
     overflow_checks |-> overflow_checks]

EmbeddedVms ==
    {EmbeddedVm(g, t, e, a, oc) :
        g \in NodeHandlers, t \in NodeHandlers, e \in NodeHandlers,
        a \in AssignmentHandlers, oc \in BOOLEAN}

\* a completed call: its inputs, its result, the procedures it invoked
Completed(call, outcome) ==
    [node_id |-> call.node_id, node_subtype |-> call.node_subtype,
     node |-> call.node, result |-> outcome.result, invoked |-> outcome.invoked]

InitDispatch ==
    /\ meta = <<>>
    /\ previous_owned_rights = <<>>
    /\ current_owned_rights = <<>>
    /\ proc = "none"
    /\ result = "none"
    /\ entry_point = 0
    /\ vm \in EmbeddedVms
    /\ history = <<>>

\* EmbeddedVm::validate_node, on a VM constructed for this call
ValidateNode ==
    /\ history = <<>>
    /\ \E call \in Calls :
           history' =
               <<Completed(call,
                    EmbeddedVm_validate_node(
                        vm, call.node_id, call.node_subtype,
                        call.node.previous_owned_rights,
                        call.node.current_owned_rights,
                        call.node.previous_public_rights,
                        call.node.current_public_rights,
                        call.node.current_meta))>>
    /\ UNCHANGED <<meta, previous_owned_rights, current_owned_rights, proc, result>>
    /\ UNCHANGED <<entry_point, vm>>

NextDispatch == ValidateNode

SpecDispatch == InitDispatch /\ [][NextDispatch]_vars

---------------------------------------------------------------------------
(* Vocabulary of the claims about the dispatch layer *)

\* the handler slot the claim names for a node subtype
SlotOf(self, node_subtype) ==
    IF node_subtype.kind = "Genesis" THEN self.validate_genesis_handler
    ELSE IF node_subtype.kind = "StateTransition" THEN self.validate_transition_handler
    ELSE self.validate_extension_handler

\* what the node validator in slot `validator` returns on a completed call
ProcedureResult(validator, h) ==
    NodeValidator_validate(validator, h.node.previous_owned_rights,
                           h.node.current_owned_rights, h.node.current_meta,
                           vm.overflow_checks)

\* C16: the handler is resolved from the node subtype only (Genesis ->
\* validate_genesis_handler, StateTransition -> validate_transition_handler,
\* StateExtension -> validate_extension_handler); an empty slot gives Ok(())
\* without invoking any procedure, whatever the owned rights, public rights
\* and metadata; a set slot invokes exactly that procedure on the call's
\* inputs.  The call's outcome is fixed by that slot and the call's inputs,
\* for every content of the other slots.
C16_DispatchBySubtype ==
    \A i \in 1..Len(history) :
        LET h == history[i]
            slot == SlotOf(vm, h.node_subtype)
        IN  /\ slot = "None" => (h.result = Success /\ h.invoked = <<>>)
            /\ slot # "None" =>
                  /\ h.invoked = <<slot>>
                  /\ h.result = Success <=> ProcedureResult(slot, h) = "Ok"
                  /\ h.result = Aborted <=> ProcedureResult(slot, h) = "Panic"
                  /\ h.result.kind = "ScriptFailure"
                         <=> ProcedureResult(slot, h) \notin {"Ok", "Panic"}

\* a state transition goes to the transition handler although the genesis
\* and extension slots hold other procedures
C16_Witness ==
    /\ Len(history) = 1
    /\ history[1].node_subtype.kind = "StateTransition"
    /\ vm.validate_genesis_handler = "ProofOfBurn"
    /\ vm.validate_transition_handler = "RightsSplit"
    /\ vm.validate_extension_handler = "None"
    /\ history[1].invoked = <<"RightsSplit">>
    /\ history[1].result = Success
    /\ history[1].node.current_meta # <<>>

\* the codes the claim lists
ClaimedCodes ==
    ("NotImplemented" :> 0) @@ ("Inflation" :> 1) @@ ("BrokenSchema" :> 2)
        @@ ("NonEqualTypes" :> 3) @@ ("NonEqualState" :> 4)
        @@ ("NonEqualAssignmentCount" :> 5) @@ ("ConfidentialState" :> 6)
        @@ ("ValueOverflow" :> 7) @@ ("DataEncoding" :> 8)

\* C17: validate returns Ok(()) exactly when the resolved procedure succeeds
\* or no handler is set; when the procedure returns HandlerError e it returns
\* ScriptFailure(node_id, code) with the node id of the call and e's declared
\* discriminant truncated to 8 bits (NotImplemented=0 .. DataEncoding=8);
\* distinct handler errors give distinct codes.
C17_ErrorMapping ==
    /\ DOMAIN ClaimedCodes = {HandlerErrors[k] : k \in 1..Len(HandlerErrors)}
    /\ \A e \in DOMAIN ClaimedCodes : as_u8(HandlerError_as_u16(e)) = ClaimedCodes[e]
    /\ \A e1, e2 \in DOMAIN ClaimedCodes :
           e1 # e2 => as_u8(HandlerError_as_u16(e1)) # as_u8(HandlerError_as_u16(e2))
    /\ \A i \in 1..Len(history) :
           LET h == history[i]
               slot == SlotOf(vm, h.node_subtype)
           IN  /\ h.result = Success <=>
                      (slot = "None" \/ ProcedureResult(slot, h) = "Ok")
               /\ (slot # "None" /\ ProcedureResult(slot, h) \in DOMAIN ClaimedCodes) =>
                      h.result = ScriptFailure(h.node_id,
                                               ClaimedCodes[ProcedureResult(slot, h)])

\* node 2 fails the count comparison: ScriptFailure(2, 5)
C17_Witness ==
    /\ Len(history) = 1
    /\ history[1].node_id = 2
    /\ history[1].invoked = <<"IdentityTransfer">>
    /\ history[1].result = ScriptFailure(2, 5)

\* the owned-right types whose declared assignment validator rejects the
\* (previous, current) assignments of a completed call
FailingAssignmentTypes(h) ==
    {t \in OwnedRightTypes :
        /\ vm.validate_assignment_handler[t] # "None"
        /\ AssignmentValidator_validate(
               vm.validate_assignment_handler[t],
               assignments_by_type(h.node.previous_owned_rights, t),
               assignments_by_type(h.node.current_owned_rights, t),
               h.node.current_meta) # "Ok"}

\* the node validator of a completed call succeeded, or none is set
NodeValidatorPassed(h) ==
    LET slot == SlotOf(vm, h.node_subtype)
    IN  slot = "None" \/ ProcedureResult(slot, h) = "Ok"

\* C18: after the node validator has succeeded, validate invokes the declared
\* assignment validator of every owned-right type on that type's (previous,
\* current) assignments; it returns Ok(()) only if the node validator and all
\* of them succeed, and ScriptFailure when one of them fails.
C18_AssignmentDispatch ==
    \A i \in 1..Len(history) :
        LET h == history[i]
        IN  /\ h.result = Success =>
                  (NodeValidatorPassed(h) /\ FailingAssignmentTypes(h) = {})
            /\ (NodeValidatorPassed(h) /\ FailingAssignmentTypes(h) # {}) =>
                  h.result.kind = "ScriptFailure"
            /\ NodeValidatorPassed(h) =>
                  \A t \in OwnedRightTypes :
                      vm.validate_assignment_handler[t] # "None" =>
                          \E k \in 1..Len(h.invoked) :
                              h.invoked[k] = vm.validate_assignment_handler[t]

---------------------------------------------------------------------------
(* A session: repeated validate calls on one validation script *)

\* the embedded VMs of the schemas validated in a session
SessionVms ==
    {EmbeddedVm("NftIssue", "IdentityTransfer", "None",
                [t \in OwnedRightTypes |-> "None"], TRUE)}
        \cup {EmbeddedVm("FungibleIssue", "RightsSplit", "ProofOfReserve",
                         [t \in OwnedRightTypes |-> "None"], oc) : oc \in BOOLEAN}

\* the nodes validated in a session: a valid issue, an issue whose allowed
\* inflation overflows, a transfer that changes a value
SessionCalls ==
    {call \in Calls :
        call.node.previous_owned_rights \in
            {IssueRights(<<RevealedState(1000, 0)>>, <<>>),
             IssueRights(<<RevealedState(U64_HALF, 0), RevealedState(U64_HALF, 0)>>, <<>>),
             AssignmentRights(<<RevealedState(1, 0)>>)}}

InitSession ==
    /\ meta = <<>>
    /\ previous_owned_rights = <<>>
    /\ current_owned_rights = <<>>
    /\ proc = "none"
    /\ result = "none"
    /\ entry_point = 0
    /\ vm \in SessionVms
    /\ history = <<>>

\* impl VmApi for ValidationScript::validate, on an Embedded script
Validate ==
    /\ Len(history) < MaxCalls
    /\ \E call \in SessionCalls :
           history' =
               Append(history,
                   Completed(call,
                       ValidationScript_validate(
                           "Embedded", vm, call.node_id, call.node_subtype,
                           call.node.previous_owned_rights,
                           call.node.current_owned_rights,
                           call.node.previous_public_rights,
                           call.node.current_public_rights,
                           call.node.current_meta)))
    /\ UNCHANGED <<meta, previous_owned_rights, current_owned_rights, proc, result>>
    /\ UNCHANGED <<entry_point, vm>>

NextSession == Validate

SpecSession == InitSession /\ [][NextSession]_vars

\* the inputs of a completed call
InputsOf(h) == <<h.node_id, h.node_subtype, h.node>>

\* what one call with the inputs of h returns on a VM built afresh
AloneOutcome(h) ==
    EmbeddedVm_validate_node(EmbeddedVm_new(vm), h.node_id, h.node_subtype,
                             h.node.previous_owned_rights,
                             h.node.current_owned_rights,
                             h.node.previous_public_rights,
                             h.node.current_public_rights,
                             h.node.current_meta)

\* two calls with identical inputs returned identical results, and each call
\* returned what it returns when made alone
SessionDeterministic ==
    /\ \A i, j \in 1..Len(history) :
           InputsOf(history[i]) = InputsOf(history[j]) =>
               history[i].result = history[j].result
    /\ \A i \in 1..Len(history) :
           /\ history[i].result = AloneOutcome(history[i]).result
           /\ history[i].invoked = AloneOutcome(history[i]).invoked

\* a step leaves the script's VM and the record of every earlier call as
\* they were
SessionStateKept ==
    /\ vm' = vm
    /\ Len(history') >= Len(history)
    /\ \A i \in 1..Len(history) : history'[i] = history[i]

====
